---- MODULE Spec2Model ----
(***************************************************************************)
(* Model of src/index.js: the per-user conversation state machine          *)
(* (handleEvent), the generation pipeline it triggers and the reply/push   *)
(* retry wrappers, with handlers of several events interleaved at their    *)
(* await points on one JavaScript thread.                                  *)
(*                                                                         *)
(* Texts are sequences of tokens; a token is a romanised piece of the      *)
(* Japanese literals of the source:                                        *)
(*   "konnichiwa" = こんにちは      "moderu_shashin" = モデル写真           *)
(*   "wo_okuru" = を送る📸          "jiyuu_nyuuryoku" = 自由入力✍️          *)
(*   "sonomama" = そのまま          "kurokami" = 黒髪                       *)
(*   "mou_ichido_tamesu" = もう一度試す                                     *)
(*   "kamigata_wo_kaeru" = 髪型を変える                                     *)
(*   "kamiiro_dake_kaeru" = 髪色だけ変える                                  *)
(* " " is a whitespace character.                                          *)
(***************************************************************************)
EXTENDS Naturals, Sequences, FiniteSets, TLC

\* ------------------------------------------------------------------ bounds
\* events handed to handleEvent in a run
MaxEvents == 4
\* invocations of handleEvent in flight at a time
MaxInFlight == 2
\* events that arrive while another invocation is still in flight
MaxOverlap == 1
\* events handed to handleEvent in a run of FairSpec
MaxFairEvents == 3
\* events handed to handleEvent in a run of PairSpec
MaxPairEvents == 3

\* ------------------------------------------------------------------ values
\* null and undefined: values that are no text and no image data
NULL == <<"null">>
UNDEF == <<"undefined">>

\* x is null or undefined
Absent(x) == x \in {NULL, UNDEF}

\* JavaScript !x for a value that is null, undefined or a string
Falsy(x) == Absent(x) \/ x = <<>>

Users == {"u1", "u2"}

\* the users who write to the bot in a run of Spec
Senders == {"u1"}

\* ------------------------------------------------------------------ texts
WS == " "

\* String.prototype.trim
RECURSIVE TrimLeft(_)
TrimLeft(s) == IF s # <<>> /\ Head(s) = WS THEN TrimLeft(Tail(s)) ELSE s

RECURSIVE TrimRight(_)
TrimRight(s) ==
  IF s # <<>> /\ s[Len(s)] = WS THEN TrimRight(SubSeq(s, 1, Len(s) - 1)) ELSE s

Trim(s) == TrimRight(TrimLeft(s))

\* case folding of the i flag of the greeting pattern
Lower(tok) ==
  CASE tok = "HI" -> "hi"
    [] tok = "Hi" -> "hi"
    [] tok = "HELLO" -> "hello"
    [] tok = "Hello" -> "hello"
    [] OTHER -> tok

GreetingWords == {"konnichiwa", "konchiwa", "yaa", "hi", "hello"}

\* /^(こんにちは|こんちは|やあ|hi|hello)$/i.test(txt)
IsGreeting(txt) == Len(txt) = 1 /\ Lower(txt[1]) \in GreetingWords

\* /モデル写真/.test(txt)
MentionsModelPhoto(txt) == \E k \in 1..Len(txt) : txt[k] = "moderu_shashin"

SendModelPhoto == <<"moderu_shashin", "wo_okuru">>
FreeInput == <<"jiyuu_nyuuryoku">>
KeepOriginal == <<"sonomama">>
TryAgain == <<"mou_ichido_tamesu">>
ChangeStyle == <<"kamigata_wo_kaeru">>
ChangeColorOnly == <<"kamiiro_dake_kaeru">>

STYLE_QR ==
  << <<"shooto">>, <<"bobu">>, <<"midiamu">>, <<"rongu">>, <<"urufu">>,
     <<"menzu">>, SendModelPhoto, FreeInput >>

COLOR_QR ==
  << KeepOriginal, <<"kurokami">>, <<"miruku_tii">>, <<"pinku_beeju">>,
     <<"gureeju">>, FreeInput >>

\* Array.prototype.includes
Includes(arr, x) == \E k \in 1..Len(arr) : arr[k] = x

\* ------------------------------------------------------------------ images
RawImages ==
  { [px |-> "A", width |-> 1080, exif |-> TRUE],
    [px |-> "B", width |-> 640, exif |-> FALSE] }

\* sharp(buffer).resize({width: 720, withoutEnlargement: true}).jpeg().withMetadata(false)
PreprocessImage(buffer) ==
  [px |-> buffer.px,
   width |-> IF buffer.width > 720 THEN 720 ELSE buffer.width,
   fmt |-> "jpeg"]

\* pre.toString('base64')
ToBase64(pre) == <<"b64", pre.px, ToString(pre.width)>>

\* ------------------------------------------------------------------ messages
Text(t, qr) == [type |-> "text", text |-> t, qr |-> qr]

MsgNiceShot == Text("nice_shot_which_style", "STYLE_QR")
MsgModelReceived == Text("model_photo_received_change_color", "COLOR_QR")
MsgFaceUpdated == Text("selfie_updated_pick_style", "STYLE_QR")
MsgGreeting == Text("hello_send_selfie_first", "none")
MsgSendModel == Text("send_reference_photo", "none")
MsgTypeStyle == Text("tell_style_as_text", "none")
MsgTypeColor == Text("tell_color_as_text", "none")
MsgAskColor == Text("change_color_too", "COLOR_QR")
MsgFaceFirst == Text("send_selfie_before", "none")
MsgGenerating == Text("ai_generating", "none")
MsgComplete == Text("done_try_again", "SHORTCUT_QR")
MsgApology == Text("sorry_generation_failed", "none")
MsgNextStyle == Text("ok_pick_next_style", "STYLE_QR")
MsgWhichStyle == Text("which_style", "STYLE_QR")
MsgPickColor == Text("pick_color", "COLOR_QR")
MsgPhotoPrompt == Text("first_send_selfie", "none")
MsgImage == [type |-> "image", text |-> "generated_image_url", qr |-> "none"]
NoMsg == [type |-> "none", text |-> "none", qr |-> "none"]

\* ------------------------------------------------------------------ state records
NewState ==
  [step |-> "await_face", faceB64 |-> NULL, style |-> NULL, color |-> NULL,
   modelB64 |-> UNDEF]


\* the image branch without its second case: every image is taken as the selfie
HandleImageAsFace(st, b64) ==
  IF st.step = "await_face" \/ Falsy(st.faceB64)
  THEN [obj |-> [st EXCEPT !.faceB64 = b64, !.step = "await_style"],
        msg |-> MsgNiceShot]
  ELSE [obj |-> [st EXCEPT !.faceB64 = b64, !.step = "await_style"],
        msg |-> MsgFaceUpdated]

\* the image branch that keeps the selfie it already has
HandleImageKeepsFace(st, b64) ==
  IF st.step = "await_face" \/ Falsy(st.faceB64)
  THEN [obj |-> [st EXCEPT !.faceB64 = b64, !.step = "await_style"],
        msg |-> MsgNiceShot]
  ELSE IF st.step = "await_model_image"
  THEN [obj |-> [st EXCEPT !.modelB64 = b64, !.step = "await_color"],
        msg |-> MsgModelReceived]
  ELSE [obj |-> [st EXCEPT !.step = "await_style"], msg |-> MsgFaceUpdated]

\* the image branch in which an image that follows the selfie is a model photo
HandleImageThenModel(st, b64) ==
  IF st.step = "await_face" \/ Falsy(st.faceB64)
  THEN [obj |-> [st EXCEPT !.faceB64 = b64, !.step = "await_style"],
        msg |-> MsgNiceShot]
  ELSE [obj |-> [st EXCEPT !.modelB64 = b64, !.step = "await_color"],
        msg |-> MsgModelReceived]

\* handleEvent, image branch after the awaits (lines 189-215): st is the user's
\* record, b64 the preprocessed image
HandleImage(st, b64) ==
  IF st.step = "await_face" \/ Falsy(st.faceB64)
  THEN [obj |-> [st EXCEPT !.faceB64 = b64, !.step = "await_style"],
        msg |-> MsgNiceShot]
  ELSE IF st.step = "await_model_image"
  THEN [obj |-> [st EXCEPT !.modelB64 = b64, !.step = "await_color"],
        msg |-> MsgModelReceived]
  ELSE [obj |-> [st EXCEPT !.faceB64 = b64, !.step = "await_style"],
        msg |-> MsgFaceUpdated]

IsStylePick(txt) == Includes(STYLE_QR, txt) /\ txt # SendModelPhoto /\ txt # FreeInput
IsColorPick(txt) == Includes(COLOR_QR, txt) /\ txt # FreeInput

\* the color taken verbatim
ColorVerbatim(txt) == txt

\* st.color = isColorPick ? (txt === 'そのまま' ? '' : txt) : txt   (line 253)
ColorOf(txt) ==
  IF IsColorPick(txt) THEN (IF txt = KeepOriginal THEN <<>> ELSE txt) ELSE txt

\* only a quick-reply pick is stored as the style
StyleOfPicksOnly(txt) == IF IsStylePick(txt) THEN txt ELSE NULL

\* st.style = isStylePick ? txt : txt   (line 247)
StyleOf(txt) == IF IsStylePick(txt) THEN txt ELSE txt

\* the outcome of the synchronous part of a text event: obj is the record after
\* it, fresh says userState[userId] was replaced by a new object, trigger says
\* the generation pipeline was entered (line 259), msg is the reply
Sync(obj, fresh, trigger, msg) ==
  [obj |-> obj, fresh |-> fresh, trigger |-> trigger, msg |-> msg]

\* a reset that keeps the selfie
OnGreetingKeepsFace(st) ==
  Sync([NewState EXCEPT !.faceB64 = st.faceB64], TRUE, FALSE, MsgGreeting)

\* lines 221-224
OnGreeting(st) == Sync(NewState, TRUE, FALSE, MsgGreeting)

\* lines 228-231
OnModelPhoto(st) ==
  Sync([st EXCEPT !.step = "await_model_image"], FALSE, FALSE, MsgSendModel)

\* the marker answered by the value of style alone
OnFreeInputByStyle(st) ==
  IF Falsy(st.style)
  THEN Sync([st EXCEPT !.step = "await_style"], FALSE, FALSE, MsgTypeStyle)
  ELSE Sync([st EXCEPT !.step = "await_color"], FALSE, FALSE, MsgTypeColor)

\* lines 236-244
OnFreeInput(st) ==
  IF st.step = "await_style" \/ Falsy(st.style)
  THEN Sync([st EXCEPT !.step = "await_style"], FALSE, FALSE, MsgTypeStyle)
  ELSE Sync([st EXCEPT !.step = "await_color"], FALSE, FALSE, MsgTypeColor)

\* lines 246-250
OnStyleText(st, txt) ==
  Sync([st EXCEPT !.style = StyleOf(txt), !.step = "await_color"], FALSE, FALSE,
       MsgAskColor)

\* the trigger without the check of faceB64
OnColorTextUnchecked(st, txt) ==
  Sync([st EXCEPT !.color = ColorOf(txt)], FALSE, TRUE, MsgGenerating)

\* lines 252-259
OnColorText(st, txt) ==
  LET st1 == [st EXCEPT !.color = ColorOf(txt)] IN
  IF Falsy(st1.faceB64)
  THEN Sync([st1 EXCEPT !.step = "await_face"], FALSE, FALSE, MsgFaceFirst)
  ELSE Sync(st1, FALSE, TRUE, MsgGenerating)

\* a "try again" that forgets the selfie as well
OnTryAgainDropsFace(st) ==
  Sync([step |-> "await_style", faceB64 |-> NULL,
        style |-> NULL, color |-> NULL, modelB64 |-> NULL],
       TRUE, FALSE, MsgNextStyle)

\* lines 283-286
OnTryAgain(st) ==
  Sync([step |-> "await_style",
        faceB64 |-> IF Falsy(st.faceB64) THEN NULL ELSE st.faceB64,
        style |-> NULL, color |-> NULL, modelB64 |-> NULL],
       TRUE, FALSE, MsgNextStyle)

\* lines 287-292
OnChangeStyle(st) ==
  Sync([st EXCEPT !.step = "await_style", !.style = NULL, !.modelB64 = NULL],
       FALSE, FALSE, MsgWhichStyle)

\* lines 293-296
OnChangeColorOnly(st) ==
  Sync([st EXCEPT !.step = "await_color"], FALSE, FALSE, MsgPickColor)

\* line 298
OnOtherText(st) == Sync(st, FALSE, FALSE, MsgPhotoPrompt)

\* handleEvent, text branch up to its first await (lines 219-299): st is the
\* user's record, raw the message text
HandleText(st, raw) ==
  LET txt == Trim(raw) IN
  IF IsGreeting(txt) THEN OnGreeting(st)
  ELSE IF MentionsModelPhoto(txt) THEN OnModelPhoto(st)
  ELSE IF txt = FreeInput THEN OnFreeInput(st)
  ELSE IF st.step = "await_style" THEN OnStyleText(st, txt)
  ELSE IF st.step = "await_color" THEN OnColorText(st, txt)
  ELSE IF txt = TryAgain THEN OnTryAgain(st)
  ELSE IF txt = ChangeStyle THEN OnChangeStyle(st)
  ELSE IF txt = ChangeColorOnly THEN OnChangeColorOnly(st)
  ELSE OnOtherText(st)

\* the arguments of callGeminiImageCompose (lines 262-267)
GeminiArgs(st) ==
  [faceB64 |-> st.faceB64,
   modelB64 |-> IF Falsy(st.modelB64) THEN NULL ELSE st.modelB64,
   style |-> st.style,
   color |-> st.color]

\* the writes after a successful pipeline, without the reset of color
PipelineDoneKeepsColor(st) ==
  [st EXCEPT !.step = "await_style", !.modelB64 = NULL]

\* the writes after a successful pipeline, with a reset of style as well
PipelineDoneClearsStyle(st) ==
  [st EXCEPT !.step = "await_style", !.modelB64 = NULL, !.color = NULL,
             !.style = NULL]

\* the writes after a successful pipeline (lines 273-275)
PipelineDone(st) ==
  [st EXCEPT !.step = "await_style", !.modelB64 = NULL, !.color = NULL]


\* ------------------------------------------------------------------ inputs
InTexts ==
  { <<WS, "HI">>, SendModelPhoto, FreeInput, <<"bobu", WS>>, KeepOriginal,
    TryAgain, ChangeStyle, ChangeColorOnly, <<WS>> }

NoImage == [px |-> "none", width |-> 0, exif |-> FALSE]
TextEvent(t) == [type |-> "message", mtype |-> "text", text |-> t, image |-> NoImage]
ImageEvent(im) == [type |-> "message", mtype |-> "image", text |-> NULL, image |-> im]
StickerEvent == [type |-> "message", mtype |-> "sticker", text |-> NULL, image |-> NoImage]
FollowEvent == [type |-> "follow", mtype |-> "none", text |-> NULL, image |-> NoImage]
NoEvent == [type |-> "none", mtype |-> "none", text |-> NULL, image |-> NoImage]

\* ------------------------------------------------------------------ state
VARIABLES
  userState,   \* userState[u]: the object the table holds for u, NoObj before the first event
  heap,        \* heap[o]: the fields of object o
  handlers,    \* handlers[h]: an invocation of handleEvent in flight
  dispatched,  \* number of events handed to handleEvent so far
  overlapped,  \* number of them that arrived while another invocation was in flight
  call         \* one call of reply or push, followed through its loop (RetrySpec)

vars == <<userState, heap, handlers, dispatched, overlapped, call>>

Slots == 1..MaxInFlight
NoObj == 0
ObjIds == 1..(Cardinality(Users) + MaxInFlight)

\* an invocation of handleEvent: pc its position, st the object its local st
\* refers to, msg the message of the reply or push in progress, gen the arguments handed to callGeminiImageCompose.
\* log (what the invocation called and what was delivered, in order), before
\* and after (the user's record as the invocation found it and as it left it
\* when it read and wrote it: at its start for a text, after the awaits for an
\* image) and alone (no other invocation has read or written the record of the
\* same user since) are history for the properties, and so is arrived (the step
\* of the user's record when handleEvent was called) and met (how many other
\* invocations of the same user were in flight at some time of this one's).
NoUser == "none"
NoArgs == [faceB64 |-> NULL, modelB64 |-> NULL, style |-> NULL, color |-> NULL]
NoRecord ==
  [step |-> "none", faceB64 |-> NULL, style |-> NULL, color |-> NULL,
   modelB64 |-> NULL]

Idle ==
  [pc |-> "idle", userId |-> NoUser, event |-> NoEvent, st |-> NoObj,
   msg |-> NoMsg, gen |-> NoArgs, log |-> <<>>, before |-> NoRecord,
   after |-> NoRecord, alone |-> TRUE, arrived |-> "none",
   met |-> 0]

\* no call of reply or push is followed
NoCall ==
  [op |-> "none", outcomes |-> <<>>, i |-> 0, pc |-> "none", result |-> "none",
   attempts |-> 0, slept |-> 0]

Init ==
  /\ userState = [u \in Users |-> NoObj]
  /\ heap = [o \in ObjIds |-> NewState]
  /\ handlers = [h \in Slots |-> Idle]
  /\ dispatched = 0
  /\ overlapped = 0
  /\ call = NoCall


\* ------------------------------------------------------------------ objects
\* the objects some variable of the program still refers to
Referenced(us, hs) == ({us[u] : u \in Users} \cup {hs[h].st : h \in Slots}) \ {NoObj}

\* the identity given to the next object literal
FreshObj(us, hs) ==
  CHOOSE o \in ObjIds :
    /\ o \notin Referenced(us, hs)
    /\ \A p \in ObjIds : p < o => p \in Referenced(us, hs)

\* objects nothing refers to any more are forgotten
Collect(us, hs, hp) ==
  [o \in ObjIds |-> IF o \in Referenced(us, hs) THEN hp[o] ELSE NewState]

\* userState[userId] ||= {...}   (line 179)
EnsureTable(us, hs, u) ==
  IF us[u] = NoObj THEN [us EXCEPT ![u] = FreshObj(us, hs)] ELSE us

EnsureHeap(us, hs, hp, u) ==
  IF us[u] = NoObj THEN [hp EXCEPT ![FreshObj(us, hs)] = NewState] ELSE hp

\* a settled promise is taken off the microtask queue before any other callback
\* runs: nothing else happens while an invocation has just returned or thrown
Quiet == \A h \in Slots : handlers[h].pc \notin {"done", "failed"}

AllIdle == \A h \in Slots : handlers[h].pc = "idle"

\* the invocation that a new event gets
FreeSlot(h) ==
  /\ handlers[h].pc = "idle"
  /\ \A k \in Slots : k < h => handlers[k].pc # "idle"

\* an event arrives: the webhook hands it to handleEvent (line 53); n bounds
\* the events of the run
Arrive(n) ==
  /\ Quiet
  /\ dispatched < n
  /\ AllIdle \/ overlapped < MaxOverlap
  /\ dispatched' = dispatched + 1
  /\ overlapped' = IF AllIdle THEN overlapped ELSE overlapped + 1

\* invocation h of user u reads or writes the record of u: the other
\* invocations of u are no longer alone
Touch(hs, h, u) ==
  [k \in Slots |->
     IF k # h /\ hs[k].pc # "idle" /\ hs[k].userId = u
     THEN [hs[k] EXCEPT !.alone = FALSE] ELSE hs[k]]

\* the invocations of user u in flight
Others(hs, u) == {k \in Slots : hs[k].pc # "idle" /\ hs[k].userId = u}

\* an invocation of user u starts: those in flight meet one more
Meet(hs, u) ==
  [k \in Slots |->
     IF k \in Others(hs, u) THEN [hs[k] EXCEPT !.met = @ + 1] ELSE hs[k]]

Called(op, what) == <<op, what>>

\* ------------------------------------------------------------------ handleEvent
\* a text message event, from the call of handleEvent to its first await
\* (lines 177-181, 219-299)
StartText(u, t, n) ==
  \E h \in Slots :
    /\ FreeSlot(h)
    /\ Arrive(n)
    /\ LET us1 == EnsureTable(userState, handlers, u)
           hp1 == EnsureHeap(userState, handlers, heap, u)
           o == us1[u]
           r == HandleText(hp1[o], t)
           o2 == IF r.fresh THEN FreshObj(us1, handlers) ELSE o
           us2 == [us1 EXCEPT ![u] = o2]
           hp2 == [hp1 EXCEPT ![o2] = r.obj]
           me == [Idle EXCEPT !.pc = IF r.trigger THEN "ack" ELSE "reply",
                              !.userId = u, !.event = TextEvent(t),
                              !.st = IF r.trigger THEN o ELSE NoObj,
                              !.msg = r.msg,
                              !.log = <<Called("reply", r.msg.text)>>,
                              !.before = hp1[o], !.after = r.obj,
                              !.arrived = hp1[o].step,
                              !.met = Cardinality(Others(handlers, u))]
           hs2 == [Meet(Touch(handlers, h, u), u) EXCEPT ![h] = me]
       IN /\ userState' = us2
          /\ handlers' = hs2
          /\ heap' = Collect(us2, hs2, hp2)
          /\ UNCHANGED call
\* an image message event, up to await getImageBuffer (lines 177-186)
StartImage(u, im, n) ==
  \E h \in Slots :
    /\ FreeSlot(h)
    /\ Arrive(n)
    /\ LET us1 == EnsureTable(userState, handlers, u)
           hp1 == EnsureHeap(userState, handlers, heap, u)
           me == [Idle EXCEPT !.pc = "fetch", !.userId = u, !.event = ImageEvent(im),
                              !.log = <<Called("call", "getImageBuffer")>>,
                              !.arrived = hp1[us1[u]].step,
                              !.met = Cardinality(Others(handlers, u))]
           hs2 == [Meet(Touch(handlers, h, u), u) EXCEPT ![h] = me]
       IN /\ userState' = us1
          /\ handlers' = hs2
          /\ heap' = Collect(us1, hs2, hp1)
          /\ UNCHANGED call
\* any other event: a message that is neither image nor text, or an event that
\* is no message (lines 177-181, 301)
StartOther(u, ev, n) ==
  \E h \in Slots :
    /\ FreeSlot(h)
    /\ Arrive(n)
    /\ LET us1 == EnsureTable(userState, handlers, u)
           hp1 == EnsureHeap(userState, handlers, heap, u)
           me == [Idle EXCEPT !.pc = "done", !.userId = u, !.event = ev,
                              !.arrived = hp1[us1[u]].step,
                              !.met = Cardinality(Others(handlers, u))]
           hs2 == [Meet(Touch(handlers, h, u), u) EXCEPT ![h] = me]
       IN /\ userState' = us1
          /\ handlers' = hs2
          /\ heap' = Collect(us1, hs2, hp1)
          /\ UNCHANGED call
\* how an invocation's step changes the state: the invocation's new record and
\* the new heap; touches says that the step reads or writes the user's record
Advance(h, me, hp, touches) ==
  LET hs1 == IF touches THEN Touch(handlers, h, handlers[h].userId) ELSE handlers
      hs2 == [hs1 EXCEPT ![h] = me]
  IN /\ Quiet
     /\ handlers' = hs2
     /\ heap' = Collect(userState, hs2, hp)
     /\ UNCHANGED <<userState, dispatched, overlapped, call>>

\* the invocation rejects: the error reaches Promise.all(...).catch (line 53)
Reject(me, what) ==
  [me EXCEPT !.pc = "failed", !.log = Append(me.log, Called("error", what))]

\* getImageBuffer resolves (lines 118-123, 186)
FetchOk(h) ==
  /\ handlers[h].pc = "fetch"
  /\ Advance(h, [handlers[h] EXCEPT !.pc = "preprocess",
                   !.log = Append(@, Called("call", "preprocessImage"))], heap, FALSE)

\* getImageBuffer rejects
FetchFail(h) ==
  /\ handlers[h].pc = "fetch"
  /\ Advance(h, Reject(handlers[h], "getImageBuffer"), heap, FALSE)

\* preprocessImage resolves; the handler runs on to its reply (lines 187-215)
PreprocessOk(h) ==
  /\ handlers[h].pc = "preprocess"
  /\ LET me == handlers[h]
         o == userState[me.userId]
         r == HandleImage(heap[o], ToBase64(PreprocessImage(me.event.image)))
     IN Advance(h, [me EXCEPT !.pc = "reply", !.msg = r.msg,
                      !.log = Append(@, Called("reply", r.msg.text)),
                      !.before = heap[o], !.after = r.obj, !.alone = TRUE],
                [heap EXCEPT ![o] = r.obj], TRUE)

\* a failure of preprocessImage after which the image is stored as it came
PreprocessFailStoresRaw(h) ==
  /\ handlers[h].pc = "preprocess"
  /\ Advance(h, Reject(handlers[h], "preprocessImage"),
             [heap EXCEPT ![userState[handlers[h].userId]].faceB64 =
                            <<"b64", handlers[h].event.image.px,
                              ToString(handlers[h].event.image.width)>>],
             TRUE)

\* preprocessImage rejects
PreprocessFail(h) ==
  /\ handlers[h].pc = "preprocess"
  /\ Advance(h, Reject(handlers[h], "preprocessImage"), heap, FALSE)


\* ------------------------------------------------------------------ reply, push
\* for (let i = 0; i < 3; i++)   (lines 78, 85)
Attempts == 3

\* what the platform does with each attempt of one reply or push: outcomes[k]
\* says whether attempt k succeeds
Outcomes == [1..Attempts -> BOOLEAN]

\* the loop of reply and of push from iteration i on (lines 77-82, 84-89): the
\* first successful attempt returns, the failure of the last attempt is thrown,
\* any other failure is followed by a sleep and the next iteration.  The loop
\* touches no variable of the program, so an invocation's whole reply or push
\* is one step of the model
RECURSIVE Retry(_, _)
Retry(outcomes, i) ==
  IF i < Attempts
  THEN IF outcomes[i + 1] THEN [threw |-> FALSE, attempts |-> i + 1]
       ELSE IF i = Attempts - 1 THEN [threw |-> TRUE, attempts |-> i + 1]
       ELSE Retry(outcomes, i + 1)
  ELSE [threw |-> FALSE, attempts |-> i]

\* the attempt outcomes with which a reply or push returns, and those with
\* which it throws
Returning == {oc \in Outcomes : ~Retry(oc, 0).threw}
Throwing == {oc \in Outcomes : Retry(oc, 0).threw}

\* ------------------------------------------------------------------ one call of reply or push
\* what client.replyMessage or client.pushMessage does with one attempt: it
\* resolves with a result or rejects
AttemptResults == {"r1", "r2", "error"}

\* which attempts succeed
Succeeds(outcomes) == [k \in 1..Attempts |-> outcomes[k] # "error"]

\* reply(token, message) or push(userId, message) is called: i = 0, the
\* platform's answer to each attempt is any of AttemptResults
RetryInit ==
  /\ userState = [u \in Users |-> NoObj]
  /\ heap = [o \in ObjIds |-> NewState]
  /\ handlers = [h \in Slots |-> Idle]
  /\ dispatched = 0
  /\ overlapped = 0
  /\ \E op \in {"reply", "push"}, oc \in [1..Attempts -> AttemptResults] :
       call = [NoCall EXCEPT !.op = op, !.outcomes = oc, !.pc = "try"]

\* try { return await client.replyMessage(token, message); }   (lines 79, 86)
AttemptOk ==
  /\ call.pc = "try"
  /\ call.i < Attempts
  /\ call.outcomes[call.i + 1] # "error"
  /\ call' = [call EXCEPT !.pc = "returned", !.result = call.outcomes[call.i + 1],
                          !.attempts = @ + 1]
  /\ UNCHANGED <<userState, heap, handlers, dispatched, overlapped>>

\* a failed attempt that is thrown to the caller at once
AttemptFailThrowsAtOnce ==
  /\ call.pc = "try"
  /\ call.i < Attempts
  /\ call.outcomes[call.i + 1] = "error"
  /\ call' = [call EXCEPT !.pc = "thrown", !.attempts = @ + 1]
  /\ UNCHANGED <<userState, heap, handlers, dispatched, overlapped>>

\* catch (e) { if (i === 2) throw e; await sleep(250 * (i + 1)); }   (lines 80, 87)
AttemptFail ==
  /\ call.pc = "try"
  /\ call.i < Attempts
  /\ call.outcomes[call.i + 1] = "error"
  /\ call' = [call EXCEPT !.pc = IF call.i = 2 THEN "thrown" ELSE "sleep",
                          !.attempts = @ + 1]
  /\ UNCHANGED <<userState, heap, handlers, dispatched, overlapped>>

\* the sleep is over: i++ and the next iteration (lines 78, 85)
Wake ==
  /\ call.pc = "sleep"
  /\ call' = [call EXCEPT !.pc = "try", !.i = @ + 1, !.slept = @ + 250 * (call.i + 1)]
  /\ UNCHANGED <<userState, heap, handlers, dispatched, overlapped>>

RetryNext == AttemptOk \/ AttemptFail \/ Wake

\* every attempt settles and every sleep ends
RetrySpec == RetryInit /\ [][RetryNext]_vars /\ WF_vars(RetryNext)

\* a catch block that sends the apology with the reply token
CatchReplies(me, what) ==
  [me EXCEPT !.pc = "push_apology", !.msg = MsgApology,
             !.log = Append(Append(me.log, Called("error", what)),
                            Called("reply", MsgApology.text))]

\* the catch block of the pipeline (lines 276-279): push the apology
Catch(me, what) ==
  [me EXCEPT !.pc = "push_apology", !.msg = MsgApology,
             !.log = Append(Append(me.log, Called("error", what)),
                            Called("push", MsgApology.text))]

\* reply returns.  After the "generating" reply the handler goes on to call
\* callGeminiImageCompose (lines 259-267)
ReplyOk(h) ==
  /\ handlers[h].pc \in {"reply", "ack"}
  /\ Returning # {}
  /\ LET me == handlers[h]
         sent == Append(me.log, Called("delivered", me.msg.text))
     IN IF me.pc = "reply"
        THEN Advance(h, [me EXCEPT !.pc = "done", !.log = sent], heap, FALSE)
        ELSE Advance(h, [me EXCEPT !.pc = "gemini", !.gen = GeminiArgs(heap[me.st]),
                           !.log = Append(sent, Called("call", "callGeminiImageCompose"))],
                     heap, TRUE)

\* reply throws: the handler rejects (the "generating" reply is outside the try)
ReplyFail(h) ==
  /\ handlers[h].pc \in {"reply", "ack"}
  /\ Throwing # {}
  /\ Advance(h, Reject(handlers[h], handlers[h].msg.text), heap, FALSE)

\* callGeminiImageCompose resolves; saveTempImage is called (lines 262-269)
GeminiOk(h) ==
  /\ handlers[h].pc = "gemini"
  /\ Advance(h, [handlers[h] EXCEPT !.pc = "save",
                   !.log = Append(@, Called("call", "saveTempImage"))], heap, FALSE)

\* a failure of callGeminiImageCompose after which the record is reset as after
\* a success
GeminiFailResets(h) ==
  /\ handlers[h].pc = "gemini"
  /\ Advance(h, Catch(handlers[h], "callGeminiImageCompose"),
             [heap EXCEPT ![handlers[h].st] = PipelineDone(heap[handlers[h].st])], TRUE)

\* callGeminiImageCompose throws (lines 154-166)
GeminiFail(h) ==
  /\ handlers[h].pc = "gemini"
  /\ Advance(h, Catch(handlers[h], "callGeminiImageCompose"), heap, FALSE)

\* saveTempImage resolves; the image is pushed (lines 269-270)
SaveOk(h) ==
  /\ handlers[h].pc = "save"
  /\ Advance(h, [handlers[h] EXCEPT !.pc = "push_image", !.msg = MsgImage,
                   !.log = Append(@, Called("push", MsgImage.text))], heap, FALSE)

\* saveTempImage rejects
SaveFail(h) ==
  /\ handlers[h].pc = "save"
  /\ Advance(h, Catch(handlers[h], "saveTempImage"), heap, FALSE)

\* push returns.  After the image the completion message is pushed, after the
\* completion message the record is updated (lines 270-275), after the apology
\* the handler returns (lines 278-280)
PushOk(h) ==
  /\ handlers[h].pc \in {"push_image", "push_complete", "push_apology"}
  /\ Returning # {}
  /\ LET me == handlers[h]
         sent == Append(me.log, Called("delivered", me.msg.text))
     IN CASE me.pc = "push_image" ->
               Advance(h, [me EXCEPT !.pc = "push_complete", !.msg = MsgComplete,
                             !.log = Append(sent, Called("push", MsgComplete.text))], heap, FALSE)
          [] me.pc = "push_complete" ->
               Advance(h, [me EXCEPT !.pc = "done", !.log = sent],
                       [heap EXCEPT ![me.st] = PipelineDone(heap[me.st])], TRUE)
          [] me.pc = "push_apology" ->
               Advance(h, [me EXCEPT !.pc = "done", !.log = sent], heap, FALSE)

\* push throws: into the catch block when the push is inside the try, out of
\* the handler when it is the push of the catch block
PushFail(h) ==
  /\ handlers[h].pc \in {"push_image", "push_complete", "push_apology"}
  /\ Throwing # {}
  /\ LET me == handlers[h]
     IN IF me.pc = "push_apology"
        THEN Advance(h, Reject(me, me.msg.text), heap, FALSE)
        ELSE Advance(h, Catch(me, me.msg.text), heap, FALSE)

\* a rejection that nothing catches ends the process: the invocations in flight
\* and the table are lost
SettleUncaught(h) ==
  /\ handlers[h].pc \in {"done", "failed"}
  /\ IF handlers[h].pc = "failed"
     THEN /\ handlers' = [k \in Slots |-> Idle]
          /\ userState' = [u \in Users |-> NoObj]
          /\ heap' = [o \in ObjIds |-> NewState]
     ELSE /\ handlers' = [handlers EXCEPT ![h] = Idle]
          /\ heap' = Collect(userState, handlers', heap)
          /\ userState' = userState
  /\ UNCHANGED <<dispatched, overlapped, call>>

\* the promise of the invocation has settled and nothing refers to it any more
\* (line 53)
Settle(h) ==
  /\ handlers[h].pc \in {"done", "failed"}
  /\ handlers' = [handlers EXCEPT ![h] = Idle]
  /\ heap' = Collect(userState, handlers', heap)
  /\ UNCHANGED <<userState, dispatched, overlapped, call>>

\* ------------------------------------------------------------------ specification
Next ==
  \/ \E u \in Senders, t \in InTexts : StartText(u, t, MaxEvents)
  \/ \E u \in Senders, im \in RawImages : StartImage(u, im, MaxEvents)
  \/ \E u \in Senders, ev \in {StickerEvent, FollowEvent} : StartOther(u, ev, MaxEvents)
  \/ \E h \in Slots : FetchOk(h)
  \/ \E h \in Slots : FetchFail(h)
  \/ \E h \in Slots : PreprocessOk(h)
  \/ \E h \in Slots : PreprocessFail(h)
  \/ \E h \in Slots : ReplyOk(h)
  \/ \E h \in Slots : ReplyFail(h)
  \/ \E h \in Slots : GeminiOk(h)
  \/ \E h \in Slots : GeminiFail(h)
  \/ \E h \in Slots : SaveOk(h)
  \/ \E h \in Slots : SaveFail(h)
  \/ \E h \in Slots : PushOk(h)
  \/ \E h \in Slots : PushFail(h)
  \/ \E h \in Slots : Settle(h)

Spec == Init /\ [][Next]_vars

\* a continuation of invocation h
Continue(h) ==
  \/ FetchOk(h) \/ FetchFail(h)
  \/ PreprocessOk(h) \/ PreprocessFail(h)
  \/ ReplyOk(h) \/ ReplyFail(h)
  \/ GeminiOk(h) \/ GeminiFail(h)
  \/ SaveOk(h) \/ SaveFail(h)
  \/ PushOk(h) \/ PushFail(h)
  \/ Settle(h)

\* the steps of Spec in runs of at most MaxFairEvents events
FairNext ==
  \/ \E u \in Senders, t \in InTexts : StartText(u, t, MaxFairEvents)
  \/ \E u \in Senders, im \in RawImages : StartImage(u, im, MaxFairEvents)
  \/ \E u \in Senders, ev \in {StickerEvent, FollowEvent} : StartOther(u, ev, MaxFairEvents)
  \/ \E h \in Slots : FetchOk(h)
  \/ \E h \in Slots : FetchFail(h)
  \/ \E h \in Slots : PreprocessOk(h)
  \/ \E h \in Slots : PreprocessFail(h)
  \/ \E h \in Slots : ReplyOk(h)
  \/ \E h \in Slots : ReplyFail(h)
  \/ \E h \in Slots : GeminiOk(h)
  \/ \E h \in Slots : GeminiFail(h)
  \/ \E h \in Slots : SaveOk(h)
  \/ \E h \in Slots : SaveFail(h)
  \/ \E h \in Slots : PushOk(h)
  \/ \E h \in Slots : PushFail(h)
  \/ \E h \in Slots : Settle(h)

\* every call the handler awaits settles, and the event loop then runs the
\* continuation
FairSpec ==
  Init /\ [][FairNext]_vars /\ \A h \in Slots : WF_vars(Continue(h))

\* the steps of the program when every user of Users writes to the bot, in runs
\* of at most MaxPairEvents events
PairNext ==
  \/ \E u \in Users, t \in InTexts : StartText(u, t, MaxPairEvents)
  \/ \E u \in Users, im \in RawImages : StartImage(u, im, MaxPairEvents)
  \/ \E u \in Users, ev \in {StickerEvent, FollowEvent} : StartOther(u, ev, MaxPairEvents)
  \/ \E h \in Slots : FetchOk(h)
  \/ \E h \in Slots : FetchFail(h)
  \/ \E h \in Slots : PreprocessOk(h)
  \/ \E h \in Slots : PreprocessFail(h)
  \/ \E h \in Slots : ReplyOk(h)
  \/ \E h \in Slots : ReplyFail(h)
  \/ \E h \in Slots : GeminiOk(h)
  \/ \E h \in Slots : GeminiFail(h)
  \/ \E h \in Slots : SaveOk(h)
  \/ \E h \in Slots : SaveFail(h)
  \/ \E h \in Slots : PushOk(h)
  \/ \E h \in Slots : PushFail(h)
  \/ \E h \in Slots : Settle(h)

PairSpec == Init /\ [][PairNext]_vars

TypeOK ==
  /\ userState \in [Users -> ObjIds \cup {NoObj}]
  /\ dispatched \in 0..MaxEvents
  /\ overlapped \in 0..MaxOverlap
  /\ \A h \in Slots : handlers[h].st \in ObjIds \cup {NoObj}


\* ------------------------------------------------------------------ vocabulary of the properties
\* the record the table holds for user u
Rec(u) == heap[userState[u]]

IsTextEvent(h) == handlers[h].event.mtype = "text"
IsImageEvent(h) == handlers[h].event.mtype = "image"

\* the text of the event of invocation h as the handler sees it
Txt(h) == Trim(handlers[h].event.text)

\* invocation h has read and written its user's record, is now at the reply that
\* follows, and no other invocation has touched that record since: the record is
\* as the handling of h's event left it
Current(h) == handlers[h].pc \in {"reply", "ack"} /\ handlers[h].alone

\* invocation h is in the generation pipeline
InPipeline(h) ==
  handlers[h].pc \in {"ack", "gemini", "save", "push_image", "push_complete", "push_apology"}

Logged(h, op, what) ==
  \E k \in 1..Len(handlers[h].log) : handlers[h].log[k] = Called(op, what)

\* how many times invocation h did op with what
Times(h, op, what) ==
  Cardinality({k \in 1..Len(handlers[h].log) : handlers[h].log[k] = Called(op, what)})

\* every entry (op, what) of h's log comes after an entry (op0, what0)
Precedes(h, op0, what0, op, what) ==
  \A k \in 1..Len(handlers[h].log) :
    handlers[h].log[k] = Called(op, what) =>
      \E j \in 1..(k - 1) : handlers[h].log[j] = Called(op0, what0)

GeminiInvoked(h) == Logged(h, "call", "callGeminiImageCompose")

\* a text that is no greeting and no marker: in await_color it is taken as the color
ColorText(txt) == ~IsGreeting(txt) /\ ~MentionsModelPhoto(txt) /\ txt # FreeInput


\* ------------------------------------------------------------------ claims
\* C1: a color text handled in step await_color while faceB64 is absent sets the
\* step to await_face, is answered with the prompt for a selfie and does not
\* enter the pipeline; and callGeminiImageCompose is only ever called with
\* faceB64 present.
C1_NoFaceNoGeneration ==
  /\ \A h \in Slots :
       ( /\ IsTextEvent(h)
         /\ ColorText(Txt(h))
         /\ handlers[h].before.step = "await_color"
         /\ Absent(handlers[h].before.faceB64) )
       => /\ ~InPipeline(h)
          /\ ~GeminiInvoked(h)
          /\ handlers[h].log[1] = Called("reply", MsgFaceFirst.text)
          /\ Current(h) => Rec(handlers[h].userId).step = "await_face"
  /\ \A h \in Slots :
       GeminiInvoked(h) => ~Absent(handlers[h].gen.faceB64)

C1_Witness ==
  \E h \in Slots :
    /\ IsTextEvent(h)
    /\ ColorText(Txt(h))
    /\ handlers[h].before.step = "await_color"
    /\ Absent(handlers[h].before.faceB64)
    /\ Current(h)
    /\ handlers[h].msg = MsgFaceFirst
    /\ Rec(handlers[h].userId).step = "await_face"

\* the optional fields of a record are all absent and its step is await_face
FullyReset(st) ==
  /\ st.step = "await_face"
  /\ Absent(st.faceB64)
  /\ Absent(st.modelB64)
  /\ Absent(st.style)
  /\ Absent(st.color)

\* C2: from every step and with any values of the optional fields, a greeting
\* leaves the user's record fully reset (step await_face, faceB64, modelB64,
\* style and color absent) and does not enter the pipeline.
C2_GreetingResets ==
  \A h \in Slots :
    (IsTextEvent(h) /\ IsGreeting(Txt(h)))
    => /\ ~InPipeline(h)
       /\ ~GeminiInvoked(h)
       /\ Current(h) => FullyReset(Rec(handlers[h].userId))

C2_Witness ==
  \E h \in Slots :
    /\ IsTextEvent(h)
    /\ IsGreeting(Txt(h))
    /\ Current(h)
    /\ handlers[h].before.step = "await_color"
    /\ ~Absent(handlers[h].before.faceB64)
    /\ ~Absent(handlers[h].before.modelB64)
    /\ FullyReset(Rec(handlers[h].userId))


\* a text that is neither greeting, marker nor shortcut
PlainText(txt) ==
  /\ ColorText(txt)
  /\ txt \notin {TryAgain, ChangeStyle, ChangeColorOnly}

\* C3, as claimed: in every step a message that is unrecognized there (a plain
\* text where neither style nor color is expected, or a message that is neither
\* text nor image) sets the step to await_face and is answered with the prompt
\* for a selfie; no such message is handled without any outbound message.
C3_UnrecognizedPromptsForFace ==
  /\ \A h \in Slots :
       ( /\ IsTextEvent(h)
         /\ PlainText(Txt(h))
         /\ handlers[h].before.step \in {"await_face", "await_model_image"} )
       => /\ handlers[h].log[1] = Called("reply", MsgPhotoPrompt.text)
          /\ Current(h) => Rec(handlers[h].userId).step = "await_face"
  /\ \A h \in Slots :
       ( /\ handlers[h].event.type = "message"
         /\ handlers[h].event.mtype \notin {"text", "image"}
         /\ handlers[h].pc = "done" )
       => /\ handlers[h].log # <<>>
          /\ handlers[h].alone => Rec(handlers[h].userId).step = "await_face"

\* the pipeline of invocation h ran to its end: the completion message was
\* delivered and the handler returned
Completed(h) ==
  handlers[h].pc = "done" /\ Logged(h, "delivered", MsgComplete.text)

\* C4: when the pipeline of an invocation has completed (generation, asset
\* store and both pushes succeeded) and no other invocation has read or written
\* the user's record since the trigger, the record has faceB64 equal to the face
\* handed to callGeminiImageCompose, modelB64 and color absent, and step
\* await_style.
C4_AfterSuccess ==
  \A h \in Slots :
    (Completed(h) /\ handlers[h].alone)
    => /\ userState[handlers[h].userId] = handlers[h].st
       /\ Rec(handlers[h].userId).faceB64 = handlers[h].gen.faceB64
       /\ ~Absent(Rec(handlers[h].userId).faceB64)
       /\ Absent(Rec(handlers[h].userId).modelB64)
       /\ Absent(Rec(handlers[h].userId).color)
       /\ Rec(handlers[h].userId).step = "await_style"

C4_Witness ==
  \E h \in Slots :
    /\ Completed(h)
    /\ handlers[h].alone
    /\ handlers[h].after.modelB64 = ToBase64(PreprocessImage([px |-> "B", width |-> 640, exif |-> FALSE]))
    /\ handlers[h].after.color # <<>>
    /\ Rec(handlers[h].userId).step = "await_style"

\* callGeminiImageCompose failed in the pipeline of invocation h
GenerationFailed(h) == Logged(h, "error", "callGeminiImageCompose")

\* the pushes invocation h has called so far
Pushes(h) == SelectSeq(handlers[h].log, LAMBDA e : e[1] = "push")

\* C5: if callGeminiImageCompose fails in a pipeline, the handler calls push
\* exactly once, with the apology (no image push, no completion push), the user
\* is delivered nothing else after the "generating" reply, and the pipeline
\* leaves the record as it was at the trigger (step await_color, faceB64,
\* modelB64, style and color as then) unless another invocation touched it, so
\* that a color text sent again enters the pipeline again.
C5_GenerationFailure ==
  \A h \in Slots :
    GenerationFailed(h)
    => /\ Pushes(h) = <<Called("push", MsgApology.text)>>
       /\ ~Logged(h, "delivered", MsgImage.text)
       /\ ~Logged(h, "delivered", MsgComplete.text)
       /\ Times(h, "delivered", MsgApology.text) = (IF handlers[h].pc = "done" THEN 1 ELSE 0)
       /\ handlers[h].alone
          => /\ userState[handlers[h].userId] = handlers[h].st
             /\ Rec(handlers[h].userId) = handlers[h].after
             /\ Rec(handlers[h].userId).step = "await_color"
             /\ \A t \in InTexts :
                  ColorText(Trim(t)) => HandleText(Rec(handlers[h].userId), t).trigger

C5_Witness ==
  \E h \in Slots :
    /\ GenerationFailed(h)
    /\ handlers[h].pc = "done"
    /\ handlers[h].alone
    /\ Logged(h, "delivered", MsgApology.text)
    /\ Rec(handlers[h].userId).color = <<>>
    /\ ~Absent(Rec(handlers[h].userId).style)


\* C7, as claimed: from every step the text "try again" leaves the record with
\* faceB64 unchanged, style, color and modelB64 absent and step await_style, and
\* does not enter the pipeline.
C7_TryAgainFromAnyStep ==
  \A h \in Slots :
    (IsTextEvent(h) /\ Txt(h) = TryAgain)
    => /\ ~InPipeline(h)
       /\ ~GeminiInvoked(h)
       /\ Current(h)
          => /\ Rec(handlers[h].userId).faceB64 = handlers[h].before.faceB64
             /\ Absent(Rec(handlers[h].userId).style)
             /\ Absent(Rec(handlers[h].userId).color)
             /\ Absent(Rec(handlers[h].userId).modelB64)
             /\ Rec(handlers[h].userId).step = "await_style"

\* C8, as claimed: from every step the text "change color only" changes only
\* the step, to await_color: faceB64, modelB64, style and color stay as they
\* were and the pipeline is not entered.
C8_ChangeColorOnlyFromAnyStep ==
  \A h \in Slots :
    (IsTextEvent(h) /\ Txt(h) = ChangeColorOnly)
    => /\ ~InPipeline(h)
       /\ ~GeminiInvoked(h)
       /\ Current(h)
          => Rec(handlers[h].userId) = [handlers[h].before EXCEPT !.step = "await_color"]

\* the image of the event of invocation h as the handler stores it
B64(h) == ToBase64(PreprocessImage(handlers[h].event.image))

\* invocation h has handled an image that it found in step await_model_image
ImageInModelStep(h) ==
  /\ IsImageEvent(h)
  /\ handlers[h].before.step = "await_model_image"

\* the image was stored as modelB64 and only the step changed besides
StoredAsModel(h) ==
  Rec(handlers[h].userId) =
    [handlers[h].before EXCEPT !.modelB64 = B64(h), !.step = "await_color"]

\* C9, as claimed: an image handled in step await_model_image is stored,
\* preprocessed, as modelB64 and the step becomes await_color, with faceB64 and
\* style unchanged, for every value of the other fields, faceB64 absent included.
C9_ModelImageStored ==
  \A h \in Slots :
    (ImageInModelStep(h) /\ Current(h)) => StoredAsModel(h)

\* C9, amended: an image handled in step await_model_image while faceB64 is
\* present is stored, preprocessed, as modelB64 and the step becomes await_color,
\* with faceB64, style and color unchanged; while faceB64 is absent the image is
\* stored as faceB64 instead and the step becomes await_style.
C9_ModelImageStoredWhenFacePresent ==
  \A h \in Slots :
    (ImageInModelStep(h) /\ Current(h))
    => /\ handlers[h].log[Len(handlers[h].log)] =
            Called("reply", (IF Falsy(handlers[h].before.faceB64)
                             THEN MsgNiceShot ELSE MsgModelReceived).text)
       /\ IF Falsy(handlers[h].before.faceB64)
          THEN Rec(handlers[h].userId) =
                 [handlers[h].before EXCEPT !.faceB64 = B64(h), !.step = "await_style"]
          ELSE StoredAsModel(h)

C9_Witness ==
  \E h \in Slots :
    /\ ImageInModelStep(h)
    /\ Current(h)
    /\ ~Absent(handlers[h].before.faceB64)
    /\ ~Absent(handlers[h].before.style)
    /\ handlers[h].event.image.width > 720
    /\ Rec(handlers[h].userId).modelB64 = <<"b64", "A", "720">>
    /\ Rec(handlers[h].userId).step = "await_color"

\* invocation h handles the free-text marker
IsFreeInput(h) == IsTextEvent(h) /\ Txt(h) = FreeInput

\* the marker was answered with the prompt msg and left the record unchanged but
\* for the step
Prompted(h, msg, step) ==
  /\ handlers[h].log[1] = Called("reply", msg.text)
  /\ Current(h) => Rec(handlers[h].userId) = [handlers[h].before EXCEPT !.step = step]

\* C10, as claimed: in every step the free-text marker only produces a prompt
\* (it is not stored as style or color, the pipeline is not entered): the
\* style-entry prompt with step await_style when style is absent, the
\* color-entry prompt with step await_color when style is set.
C10_FreeInputByStyle ==
  \A h \in Slots :
    IsFreeInput(h)
    => /\ ~InPipeline(h)
       /\ ~GeminiInvoked(h)
       /\ IF Falsy(handlers[h].before.style)
          THEN Prompted(h, MsgTypeStyle, "await_style")
          ELSE Prompted(h, MsgTypeColor, "await_color")

\* C10, amended: in every step the free-text marker only produces a prompt (it
\* is not stored as style or color, the pipeline is not entered): the
\* style-entry prompt with step await_style when the step is await_style or
\* style is absent or empty, the color-entry prompt with step await_color
\* otherwise.
C10_FreeInputByStepAndStyle ==
  \A h \in Slots :
    IsFreeInput(h)
    => /\ ~InPipeline(h)
       /\ ~GeminiInvoked(h)
       /\ IF handlers[h].before.step = "await_style" \/ Falsy(handlers[h].before.style)
          THEN Prompted(h, MsgTypeStyle, "await_style")
          ELSE Prompted(h, MsgTypeColor, "await_color")

C10_Witness ==
  \E h \in Slots :
    /\ IsFreeInput(h)
    /\ Current(h)
    /\ handlers[h].before.step = "await_style"
    /\ ~Falsy(handlers[h].before.style)
    /\ handlers[h].msg = MsgTypeStyle
    /\ Rec(handlers[h].userId).step = "await_style"


\* invocation h handles the text "keep original" found in step await_color with
\* faceB64 present
KeepOriginalTrigger(h) ==
  /\ IsTextEvent(h)
  /\ Txt(h) = KeepOriginal
  /\ handlers[h].before.step = "await_color"
  /\ ~Falsy(handlers[h].before.faceB64)

\* something failed in invocation h
Failed(h) == \E k \in 1..Len(handlers[h].log) : handlers[h].log[k][1] = "error"

\* C6: the text "keep original" in step await_color with faceB64 present sets
\* color to the empty string (not to null) and enters the pipeline; the
\* "generating" reply is delivered before callGeminiImageCompose is called, the
\* image is pushed after that call and the completion message (with the
\* shortcut quick-replies) is pushed only after the image was delivered; and
\* under fair scheduling the image and then the completion message are
\* eventually delivered unless generation, asset store or a delivery fails.
C6_KeepOriginalPipeline ==
  /\ [](\A h \in Slots :
          KeepOriginalTrigger(h)
          => /\ handlers[h].after.color = <<>>
             /\ Current(h) => (handlers[h].pc = "ack" /\ Rec(handlers[h].userId).color = <<>>)
             /\ handlers[h].log[1] = Called("reply", MsgGenerating.text)
             /\ Precedes(h, "delivered", MsgGenerating.text, "call", "callGeminiImageCompose")
             /\ Precedes(h, "call", "callGeminiImageCompose", "push", MsgImage.text)
             /\ Precedes(h, "delivered", MsgImage.text, "push", MsgComplete.text)
             /\ MsgComplete.qr = "SHORTCUT_QR")
  /\ \A h \in Slots :
       (KeepOriginalTrigger(h) /\ handlers[h].pc = "ack")
       ~> ( \/ Failed(h)
            \/ /\ Completed(h)
               /\ Logged(h, "delivered", MsgImage.text) )

C6_Witness ==
  \E h \in Slots :
    /\ KeepOriginalTrigger(h)
    /\ Completed(h)
    /\ handlers[h].gen.color = <<>>
    /\ handlers[h].log =
         << Called("reply", MsgGenerating.text), Called("delivered", MsgGenerating.text),
            Called("call", "callGeminiImageCompose"), Called("call", "saveTempImage"),
            Called("push", MsgImage.text), Called("delivered", MsgImage.text),
            Called("push", MsgComplete.text), Called("delivered", MsgComplete.text) >>

\* invocation h has handled a text, no greeting and no marker, that it found in
\* step await_style
StyleTextInStyleStep(h) ==
  /\ IsTextEvent(h)
  /\ ColorText(Txt(h))
  /\ handlers[h].before.step = "await_style"

\* the text was answered with the question for the color, with the color
\* quick-replies, did not enter the pipeline, and left the record with style set
\* to the text style, step await_color and nothing else changed
StoredAsStyle(h, style) ==
  /\ ~InPipeline(h)
  /\ ~GeminiInvoked(h)
  /\ handlers[h].log[1] = Called("reply", MsgAskColor.text)
  /\ MsgAskColor.qr = "COLOR_QR"
  /\ Current(h)
     => Rec(handlers[h].userId) =
          [handlers[h].before EXCEPT !.style = style, !.step = "await_color"]

\* C11, as claimed: in step await_style a text that is no greeting and no marker
\* sets style to the text of the message verbatim and the step to await_color,
\* is answered with the color quick-replies, leaves faceB64, modelB64 and color
\* unchanged and does not enter the pipeline.
C11_StyleVerbatim ==
  \A h \in Slots :
    StyleTextInStyleStep(h) => StoredAsStyle(h, handlers[h].event.text)

\* C11, amended: in step await_style a text that is no greeting, does not
\* contain the reference-photo phrase and is not the free-text marker sets style
\* to the text of the message with leading and trailing whitespace removed and
\* the step to await_color, is answered with the color quick-replies, leaves
\* faceB64, modelB64 and color unchanged and does not enter the pipeline.
C11_StyleTrimmed ==
  \A h \in Slots :
    StyleTextInStyleStep(h) => StoredAsStyle(h, Trim(handlers[h].event.text))

C11_Witness ==
  \E h \in Slots :
    /\ StyleTextInStyleStep(h)
    /\ Current(h)
    /\ handlers[h].event.text = <<"bobu", WS>>
    /\ ~Absent(handlers[h].before.faceB64)
    /\ Rec(handlers[h].userId).style = <<"bobu">>
    /\ Rec(handlers[h].userId).step = "await_color"

\* invocation h has handled an image that it found in step await_style
ImageInStyleStep(h) ==
  /\ IsImageEvent(h)
  /\ handlers[h].before.step = "await_style"

\* C12: an image handled in step await_style replaces faceB64 with the new
\* image and leaves the step at await_style and style, color and modelB64
\* unchanged; and handling the same image once more leaves the record as the
\* first handling left it.
C12_FaceUpdateIdempotent ==
  \A h \in Slots :
    ImageInStyleStep(h)
    => /\ handlers[h].after = [handlers[h].before EXCEPT !.faceB64 = B64(h)]
       /\ HandleImage(handlers[h].after, B64(h)).obj = handlers[h].after
       /\ Current(h) => Rec(handlers[h].userId) = handlers[h].after

C12_Witness ==
  \E h \in Slots :
    /\ ImageInStyleStep(h)
    /\ Current(h)
    /\ ~Absent(handlers[h].before.faceB64)
    /\ handlers[h].before.faceB64 # B64(h)
    /\ Rec(handlers[h].userId).faceB64 = B64(h)
    /\ Rec(handlers[h].userId).step = "await_style"

\* invocation h has got past its awaits of getImageBuffer and preprocessImage
\* and has read and written the record
Handled(h) == IsImageEvent(h) /\ handlers[h].before # NoRecord

\* f and w are invocations for two images of one user that both arrived while
\* the record's step was await_face; both have handled their image, f first,
\* and no third invocation of the user has been in flight with them
Raced(f, w) ==
  /\ f # w
  /\ handlers[f].userId = handlers[w].userId
  /\ handlers[f].arrived = "await_face"
  /\ handlers[w].arrived = "await_face"
  /\ Handled(f)
  /\ Handled(w)
  /\ handlers[w].alone
  /\ handlers[f].met = 1
  /\ handlers[w].met = 1

\* C13: when two images of one user both arrive in step await_face and are
\* handled concurrently, with their fetches and preprocessings interleaved in
\* any order, then after both were handled faceB64 is one of the two images (the
\* one handled last), the step is await_style and modelB64 is absent; and the
\* record in between is the record that handling the first image alone gives,
\* and the record at the end the one that handling the second after it gives.
C13_ConcurrentFaces ==
  \A f, w \in Slots :
    Raced(f, w)
    => /\ handlers[f].before.step = "await_face"
       /\ handlers[f].after =
            [handlers[f].before EXCEPT !.faceB64 = B64(f), !.step = "await_style"]
       /\ handlers[w].before = handlers[f].after
       /\ Rec(handlers[w].userId) =
            [handlers[f].before EXCEPT !.faceB64 = B64(w), !.step = "await_style"]
       /\ Rec(handlers[w].userId).faceB64 \in {B64(f), B64(w)}
       /\ Absent(Rec(handlers[w].userId).modelB64)

C13_Witness ==
  \E f, w \in Slots :
    /\ Raced(f, w)
    /\ handlers[w].log[1] = Called("call", "getImageBuffer")
    /\ B64(f) # B64(w)
    /\ f > w
    /\ Rec(handlers[w].userId).faceB64 = B64(w)
    /\ Rec(handlers[w].userId).step = "await_style"

\* invocation h is in flight
InFlight(h) == handlers[h].pc \notin {"idle", "done", "failed"}

\* this step is the rejection of invocation h reaching the catch of line 53
FailureSettles(h) == handlers[h].pc = "failed" /\ handlers'[h].pc = "idle"

\* this step leaves the table and the record of every user as they are
TableKept ==
  \A u \in Users :
    /\ userState'[u] = userState[u]
    /\ userState[u] # NoObj => heap'[userState[u]] = heap[userState[u]]

\* C14: a failure while one event is handled (a thrown error, a rejected
\* promise) reaches the catch of the dispatcher and does nothing else: the
\* process goes on, the other invocations in flight stay where they are and
\* keep their state, the table is kept; and every invocation that was started,
\* whatever the outcome of the others, runs to its end (returns or rejects).
C14_FailureIsolated ==
  /\ [][\A h \in Slots :
          FailureSettles(h)
          => /\ TableKept
             /\ \A k \in Slots \ {h} : handlers'[k] = handlers[k]]_vars
  /\ \A h \in Slots : (handlers[h].pc # "idle") ~> (handlers[h].pc = "idle")
  /\ \A h \in Slots :
       (InFlight(h) /\ \E k \in Slots : handlers[k].pc = "failed")
       ~> (handlers[h].pc \in {"done", "failed"})

C14_Witness ==
  \E h, k \in Slots :
    /\ handlers[h].pc = "failed"
    /\ InFlight(k)
    /\ handlers[k].userId = handlers[h].userId
    /\ ~Absent(Rec(handlers[k].userId).faceB64)

\* all attempts of the call fail
AllFail == \A k \in 1..Attempts : call.outcomes[k] = "error"

\* C15: a call of reply or of push makes at most 3 attempts, stops at the first
\* attempt that succeeds and returns the result of that attempt, and throws to
\* its caller if and only if all 3 attempts fail; it ends, returning or
\* throwing, when every attempt settles.  What it does is what Retry, the
\* summary of the loop used in the handlers' steps, says.
C15_BoundedRetry ==
  /\ [](/\ call.attempts <= 3
        /\ call.pc = "returned"
           => /\ call.attempts >= 1
              /\ call.result = call.outcomes[call.attempts]
              /\ call.result # "error"
              /\ \A k \in 1..(call.attempts - 1) : call.outcomes[k] = "error"
              /\ Retry(Succeeds(call.outcomes), 0) =
                   [threw |-> FALSE, attempts |-> call.attempts]
        /\ call.pc = "thrown"
           => /\ call.attempts = 3
              /\ AllFail
              /\ Retry(Succeeds(call.outcomes), 0) = [threw |-> TRUE, attempts |-> 3])
  /\ AllFail ~> (call.pc = "thrown")
  /\ ~AllFail ~> (call.pc = "returned")

C15_Witness ==
  /\ call.op = "push"
  /\ call.pc = "returned"
  /\ call.attempts = 3
  /\ call.slept = 750
  /\ call.result = "r2"

\* the replies invocation h has called so far
Replies(h) == SelectSeq(handlers[h].log, LAMBDA e : e[1] = "reply")

\* the messages of the pipeline that follow the "generating" reply
PipelineResults == {MsgImage.text, MsgComplete.text, MsgApology.text}

\* C16: the handler of an event calls reply, with the reply token of the event,
\* at most once; in the generation path that one reply is the "generating"
\* acknowledgment, and the generated image, the completion message and the
\* failure notice are sent by push, never by reply.
C16_ReplyOnce ==
  \A h \in Slots :
    /\ Len(Replies(h)) <= 1
    /\ (InPipeline(h) \/ GeminiInvoked(h))
       => Replies(h) = <<Called("reply", MsgGenerating.text)>>
    /\ \A k \in 1..Len(handlers[h].log) :
         /\ handlers[h].log[k][1] = "reply" => handlers[h].log[k][2] \notin PipelineResults
         /\ handlers[h].log[k][1] = "push" => handlers[h].log[k][2] \in PipelineResults
    /\ \A what \in PipelineResults :
         Logged(h, "delivered", what) => Logged(h, "push", what)

C16_Witness ==
  \E h \in Slots :
    /\ Completed(h)
    /\ Replies(h) = <<Called("reply", MsgGenerating.text)>>
    /\ Pushes(h) = <<Called("push", MsgImage.text), Called("push", MsgComplete.text)>>

\* C17, as claimed: after a successful generation cycle that no other invocation
\* interfered with, style, modelB64 and color are all absent in the user's
\* record and faceB64 is the face of the cycle.
C17_CycleInputsCleared ==
  \A h \in Slots :
    (Completed(h) /\ handlers[h].alone)
    => /\ Absent(Rec(handlers[h].userId).style)
       /\ Absent(Rec(handlers[h].userId).modelB64)
       /\ Absent(Rec(handlers[h].userId).color)
       /\ Rec(handlers[h].userId).faceB64 = handlers[h].gen.faceB64

\* C17, amended: after a successful generation cycle that no other invocation
\* interfered with, modelB64 and color are absent in the user's record, while
\* style and faceB64 are retained: they are the style and the face of the cycle.
C17_StyleRetained ==
  \A h \in Slots :
    (Completed(h) /\ handlers[h].alone)
    => /\ Rec(handlers[h].userId).style = handlers[h].gen.style
       /\ Absent(Rec(handlers[h].userId).modelB64)
       /\ Absent(Rec(handlers[h].userId).color)
       /\ Rec(handlers[h].userId).faceB64 = handlers[h].gen.faceB64

C17_Witness ==
  \E h \in Slots :
    /\ Completed(h)
    /\ handlers[h].alone
    /\ Rec(handlers[h].userId).style = <<"bobu">>
    /\ handlers[h].gen.color = <<>>
    /\ Absent(Rec(handlers[h].userId).color)

\* this step is the failure of getImageBuffer or of preprocessImage in
\* invocation h
ImageFailure(h) ==
  /\ handlers[h].pc \in {"fetch", "preprocess"}
  /\ handlers'[h].pc = "failed"

\* this step is the call of handleEvent with an image event
ImageArrival(h) == handlers[h].pc = "idle" /\ handlers'[h].pc = "fetch"

\* this step leaves every record that a user already has as it is
ExistingKept ==
  \A u \in Users :
    userState[u] # NoObj
    => /\ userState'[u] = userState[u]
       /\ heap'[userState[u]] = heap[userState[u]]

\* C18: when getImageBuffer or preprocessImage fails while an image event is
\* handled, the handler has made no partial update: neither its steps up to the
\* failure nor the failure change the step, faceB64, modelB64, style or color of
\* a record the user already has, and an invocation that failed so has not
\* written the record at all.
C18_ImageFailureNoUpdate ==
  /\ [][\A h \in Slots :
          (ImageFailure(h) \/ ImageArrival(h) \/ (handlers[h].pc = "fetch" /\ handlers'[h].pc = "preprocess"))
          => ExistingKept]_vars
  /\ [](\A h \in Slots :
          (IsImageEvent(h) /\ handlers[h].pc = "failed" /\ ~Logged(h, "reply", handlers[h].msg.text))
          => handlers[h].after = NoRecord)

C18_Witness ==
  \E h \in Slots :
    /\ IsImageEvent(h)
    /\ handlers[h].pc = "failed"
    /\ Logged(h, "error", "preprocessImage")
    /\ handlers[h].alone
    /\ Rec(handlers[h].userId).step = "await_color"
    /\ ~Absent(Rec(handlers[h].userId).faceB64)
    /\ Rec(handlers[h].userId).faceB64 # B64(h)

\* the pipeline of invocation h is in flight: the "generating" reply was
\* delivered, neither the completion message nor the apology was
Generating(h) ==
  handlers[h].pc \in {"gemini", "save", "push_image", "push_complete", "push_apology"}

\* C19, as claimed: while the pipeline of a user is in flight, no step (of the
\* handling of another event of the user) changes the user's record or starts a
\* second pipeline of the user, so that the final writes of the pipeline
\* overwrite nothing that another event wrote.
C19_PipelineExclusive ==
  [][\A h \in Slots :
       (Generating(h) /\ Generating(h)')
       => /\ userState'[handlers[h].userId] = userState[handlers[h].userId]
          /\ Rec(handlers[h].userId)' = Rec(handlers[h].userId)
          /\ \A k \in Slots \ {h} :
               (handlers'[k].userId = handlers[h].userId /\ InPipeline(k)')
               => InPipeline(k)]_vars

\* the record of user u holds a selfie
HasFace(u) == userState[u] # NoObj /\ ~Absent(Rec(u).faceB64)

\* this step is the call of handleEvent with a greeting of user u
GreetingOf(u) ==
  \E h \in Slots :
    /\ handlers[h].pc = "idle"
    /\ handlers'[h].userId = u
    /\ IsTextEvent(h)'
    /\ IsGreeting(Txt(h)')

\* the user whose event invocation h handles in this step
Actor(h) == IF handlers[h].pc = "idle" THEN handlers'[h].userId ELSE handlers[h].userId

\* C20: once the record of a user holds a selfie it holds one (the same or a
\* newer one) after every step of the handling of any event, unless the step is
\* the handling of a greeting of that user; and a step of the handling of one
\* user's event changes neither the table entry nor the record of any other
\* user.
C20_FaceKeptUsersApart ==
  [][/\ \A u \in Users :
          (HasFace(u) /\ ~HasFace(u)') => GreetingOf(u)
     /\ \A h \in Slots :
          handlers'[h] # handlers[h]
          => \A v \in Users \ {Actor(h)} :
               /\ userState'[v] = userState[v]
               /\ userState[v] # NoObj => heap'[userState[v]] = heap[userState[v]]]_vars

C20_Witness ==
  \E h \in Slots :
    /\ handlers[h].userId = "u2"
    /\ IsTextEvent(h)
    /\ IsGreeting(Txt(h))
    /\ handlers[h].pc = "reply"
    /\ ~Absent(handlers[h].before.faceB64)
    /\ ~HasFace("u2")
    /\ HasFace("u1")

====
